---------------------------- MODULE Spec2Model ----------------------------
(*
  A model of nuxt-arpix-db-connect.

  Part I   TokenManager (src/unnamed/part_010): the bearer-token slot kept in
           a cookie and in localStorage, the validity check and the
           single-flight refresh.
  Part II  GraphQLService (src/unnamed/part_005) and its predecessor
           (src/src/runtime/database/hasura/graphql-service.ts): the
           high-level write operations insert / update / updateMany /
           delete / batch, the documents they build and handleRequest.

  Spec     is the specification of Part I, SpecSvc that of Part II.
*)
EXTENDS Integers, Sequences, FiniteSets, TLC

VARIABLES
    \* ---- Part I: TokenManager --------------------------------------
    isClient,          \* import.meta.client of the build that runs the code
    refreshEndpoint,   \* TRUE iff a (truthy) refresh endpoint is configured
    now,               \* Math.floor(Date.now() / 1000)
    cookie,            \* the auth_token cookie, "null" when there is none
    localStorage,      \* localStorage auth_token, "null" when there is none
    isRefreshing,      \* TokenManager.isRefreshing
    refreshPromise,    \* TokenManager.refreshPromise: a promise id, 0 = null
    promise,           \* the promises performRefresh() has returned
    refreshCalls,      \* number of fetch() calls made to the refresh endpoint
    calls,             \* the getValidToken() calls made so far
    fresh,             \* token stored by the last successful refresh and not
                       \* cleared or replaced by a login since ("null" if none)
    \* ---- Part II: GraphQLService -----------------------------------
    svc,               \* the last operation invoked and what came of it
    \* ---- Part III: HasuraConnector and GraphQLClient ----------------
    conn               \* the connector or client object and its last call

tmVars == <<isClient, refreshEndpoint, now, cookie, localStorage, isRefreshing,
            refreshPromise, promise, refreshCalls, calls, fresh>>
vars == <<isClient, refreshEndpoint, now, cookie, localStorage, isRefreshing,
          refreshPromise, promise, refreshCalls, calls, fresh, svc, conn>>

-----------------------------------------------------------------------------
(* Bounds of the model *)

MaxCalls == 2        \* getValidToken() calls in one behaviour
MaxRefresh == 2      \* refresh-endpoint calls in one behaviour
MaxTicks == 2        \* clock steps in one behaviour
Now0 == 1000         \* the clock's first value, in seconds
MaxOps == 2          \* operations in one batch() / items in one updateMany()
MaxSteps == 3        \* calls made on one connector or client

-----------------------------------------------------------------------------
(* Part I: TokenManager *)

\* `const bufferTime = 60`
bufferTime == 60

\* One clock step: half the look-ahead window, so that a token is seen
\* outside, on the edge of, and inside the window.
TickLen == bufferTime \div 2

\* A decoded token without an exp claim.
NoExp == 0 - 1

\* Bearer strings.  "garbage" is a string jwtDecode() throws on; every other
\* one decodes, to the exp claim given by Exp.
Tokens == {"jwt_noexp", "jwt_exp0", "jwt_e1", "jwt_e2", "garbage"}

Decodable(t) == t # "garbage"

Exp(t) ==
    CASE t = "jwt_noexp" -> NoExp
      [] t = "jwt_exp0"  -> 0
      [] t = "jwt_e1"    -> Now0 + 3 * TickLen
      [] t = "jwt_e2"    -> Now0 + 5 * TickLen
      [] OTHER           -> NoExp

\* What the refresh endpoint can answer: a transport failure, a non-OK
\* status, a body without token, or a body carrying a token.
RefreshErrors == {"fetch_error", "not_ok", "no_token"}
RefreshResponses == RefreshErrors \cup Tokens

Clock == {Now0 + k * TickLen : k \in 0..MaxTicks}

CallIds == 1..MaxCalls
PromiseIds == 1..MaxRefresh

IdleCall == [st |-> "idle", how |-> "-", p |-> 0, val |-> "-"]
NoPromise == [st |-> "unused", val |-> "-", cleared |-> FALSE]

\* getToken(): the cookie first, localStorage as the fallback; null on the
\* server.
getToken ==
    IF isClient
    THEN IF cookie # "null" THEN cookie
         ELSE IF localStorage # "null" THEN localStorage
         ELSE "null"
    ELSE "null"

\* setToken(token) writing the cookie alone.
setToken_CookieOnly(token) ==
    IF isClient THEN <<token, localStorage>> ELSE <<cookie, localStorage>>

\* setToken(token): <<cookie, localStorage>> afterwards.
setToken(token) ==
    IF isClient THEN <<token, token>> ELSE <<cookie, localStorage>>

\* isTokenValid(token) at clock value t.  `!decoded.exp` holds for a missing
\* claim and for exp = 0 alike.
isTokenValid(token, t) ==
    IF ~Decodable(token) THEN FALSE
    ELSE IF Exp(token) = NoExp \/ Exp(token) = 0 THEN TRUE
    ELSE Exp(token) > t + bufferTime

\* The guard of refreshToken() never taken.
GuardHeld_Never == FALSE

\* refreshToken(), line 101: `this.isRefreshing && this.refreshPromise`.
GuardHeld == isRefreshing /\ refreshPromise # 0

\* refreshToken() without its finally block.
FinallyGuard_Kept == <<isRefreshing, refreshPromise>>

\* refreshToken(), the finally block: <<isRefreshing, refreshPromise>>.
FinallyGuard == <<FALSE, 0>>

\* The outcome a settled promise hands to a call awaiting it.
Settled(c, pr) ==
    [c EXCEPT !.st = IF pr.st = "fulfilled" THEN "resolved" ELSE "rejected",
              !.val = pr.val]

\* refreshToken() as called by call c: join the refresh in flight, throw
\* when no endpoint is configured, or start a refresh (performRefresh() runs
\* up to its `await fetch(...)`).
refreshToken(c) ==
    IF GuardHeld
    THEN /\ calls' = [calls EXCEPT ![c] =
                IF promise[refreshPromise].st = "pending"
                THEN [st |-> "pending", how |-> "joined",
                      p |-> refreshPromise, val |-> "-"]
                ELSE Settled([st |-> "pending", how |-> "joined",
                              p |-> refreshPromise, val |-> "-"],
                             promise[refreshPromise])]
         /\ UNCHANGED <<isRefreshing, refreshPromise, promise, refreshCalls>>
    ELSE IF ~refreshEndpoint
    THEN /\ calls' = [calls EXCEPT ![c] =
                [st |-> "rejected", how |-> "threw", p |-> 0,
                 val |-> "no_endpoint"]]
         /\ UNCHANGED <<isRefreshing, refreshPromise, promise, refreshCalls>>
    ELSE /\ refreshCalls < MaxRefresh
         /\ refreshCalls' = refreshCalls + 1
         /\ isRefreshing' = TRUE
         /\ refreshPromise' = refreshCalls + 1
         /\ promise' = [promise EXCEPT ![refreshCalls + 1] =
                            [st |-> "pending", val |-> "-",
                             cleared |-> FALSE]]
         /\ calls' = [calls EXCEPT ![c] =
                [st |-> "pending", how |-> "started",
                 p |-> refreshCalls + 1, val |-> "-"]]

\* The call returns v at once, without reaching refreshToken().
ReturnNow(c, how, v) ==
    /\ calls' = [calls EXCEPT ![c] =
            [st |-> "resolved", how |-> how, p |-> 0, val |-> v]]
    /\ UNCHANGED <<isRefreshing, refreshPromise, promise, refreshCalls>>

\* The branch getValidToken() takes on the token getToken() returned.
Branch_NoLastCheck(currentToken) ==
    IF currentToken = "null" /\ ~refreshEndpoint THEN "public"
    ELSE IF currentToken = "null" /\ refreshEndpoint THEN "refresh"
    ELSE IF currentToken # "null" /\ isTokenValid(currentToken, now)
    THEN "cached"
    ELSE "refresh"

Branch(currentToken) ==
    IF currentToken = "null" /\ ~refreshEndpoint THEN "public"
    ELSE IF currentToken = "null" /\ refreshEndpoint THEN "refresh"
    ELSE IF currentToken # "null" /\ isTokenValid(currentToken, now)
    THEN "cached"
    ELSE IF refreshEndpoint THEN "refresh"
    ELSE "expired"

\* getValidToken(), as call number c.
getValidToken(c) ==
    /\ calls[c].st = "idle"
    /\ IF c = 1 THEN TRUE ELSE calls[c - 1].st # "idle"
    /\ LET currentToken == getToken
           b == Branch(currentToken)
       IN CASE b = "public"  -> ReturnNow(c, "public", "null")
            [] b = "cached"  -> ReturnNow(c, "cached", currentToken)
            [] b = "expired" -> ReturnNow(c, "expired", "null")
            [] OTHER         -> refreshToken(c)
    /\ UNCHANGED <<isClient, refreshEndpoint, now, cookie, localStorage,
                   fresh, svc, conn>>

\* performRefresh() from the answer of the endpoint on: a token is stored and
\* returned, anything else is thrown.  The caller that started the refresh
\* awaits the promise first, so its finally block is the first reaction to
\* run when the promise settles; both are one step here.
performRefresh(p, resp) ==
    /\ promise[p].st = "pending"
    /\ LET ok == resp \in Tokens
           pr == [st |-> IF ok THEN "fulfilled" ELSE "rejected", val |-> resp,
                  cleared |-> promise[p].cleared]
       IN /\ promise' = [promise EXCEPT ![p] = pr]
          /\ cookie' = IF ok THEN setToken(resp)[1] ELSE cookie
          /\ localStorage' = IF ok THEN setToken(resp)[2] ELSE localStorage
          /\ fresh' = IF ok THEN resp ELSE fresh
          /\ calls' = [c \in CallIds |->
                IF calls[c].st = "pending" /\ calls[c].p = p
                THEN Settled(calls[c], pr) ELSE calls[c]]
    /\ isRefreshing' = FinallyGuard[1]
    /\ refreshPromise' = FinallyGuard[2]
    /\ UNCHANGED <<isClient, refreshEndpoint, now, refreshCalls, svc, conn>>

\* clearToken(): <<cookie, localStorage>> afterwards.
clearedStores ==
    IF isClient THEN <<"null", "null">> ELSE <<cookie, localStorage>>

\* A refresh in flight is left alone; its `cleared` field records, for the
\* properties, that clearToken() was called while it was outstanding.
clearToken ==
    /\ cookie' = clearedStores[1]
    /\ localStorage' = clearedStores[2]
    /\ fresh' = "null"
    /\ promise' = [p \in PromiseIds |->
                      IF promise[p].st = "pending"
                      THEN [promise[p] EXCEPT !.cleared = TRUE]
                      ELSE promise[p]]
    /\ UNCHANGED <<isClient, refreshEndpoint, now, isRefreshing, refreshPromise,
                   refreshCalls, calls, svc, conn>>

\* The application's login flow writes a token to both stores.
simulateLogin(t) ==
    /\ isClient
    /\ cookie' = t
    /\ localStorage' = t
    /\ fresh' = "null"
    /\ UNCHANGED <<isClient, refreshEndpoint, now, isRefreshing, refreshPromise,
                   promise, refreshCalls, calls, svc, conn>>

\* The browser drops the cookie when its `expires` date has passed;
\* localStorage keeps its copy.
CookieExpires ==
    /\ isClient
    /\ cookie # "null"
    /\ cookie' = "null"
    /\ UNCHANGED <<isClient, refreshEndpoint, now, localStorage, isRefreshing,
                   refreshPromise, promise, refreshCalls, calls, fresh, svc, conn>>

\* Time passes.
Tick ==
    /\ now + TickLen \in Clock
    /\ now' = now + TickLen
    /\ UNCHANGED <<isClient, refreshEndpoint, cookie, localStorage,
                   isRefreshing, refreshPromise, promise, refreshCalls, calls,
                   fresh, svc, conn>>

NoSvc == [op |-> "-"]

NoConn == [program |-> "-"]

InitTM ==
    /\ isClient \in BOOLEAN
    /\ refreshEndpoint \in BOOLEAN
    /\ now = Now0
    /\ cookie = "null"
    /\ localStorage = "null"
    /\ isRefreshing = FALSE
    /\ refreshPromise = 0
    /\ promise = [p \in PromiseIds |-> NoPromise]
    /\ refreshCalls = 0
    /\ calls = [c \in CallIds |-> IdleCall]
    /\ fresh = "null"

Init == InitTM /\ svc = NoSvc /\ conn = NoConn

Next ==
    \/ \E c \in CallIds : getValidToken(c)
    \/ \E p \in PromiseIds, resp \in RefreshResponses : performRefresh(p, resp)
    \/ clearToken
    \/ \E t \in Tokens : simulateLogin(t)
    \/ CookieExpires
    \/ Tick

Spec == Init /\ [][Next]_vars

-----------------------------------------------------------------------------
(* Part II: GraphQLService -- JavaScript values and their serialisation *)

\* JavaScript values, tagged with their type.  An object is the sequence of
\* its entries <<key, value>> in insertion order.
Undef == [t |-> "undefined"]
Null == [t |-> "null"]
Str(s) == [t |-> "string", v |-> s]
Num(n) == [t |-> "number", v |-> n]
Bool(b) == [t |-> "boolean", v |-> b]
Arr(items) == [t |-> "array", e |-> items]
Obj(entries) == [t |-> "object", e |-> entries]

\* `!v`
Falsy(v) ==
    \/ v.t \in {"undefined", "null"}
    \/ v.t = "string" /\ v.v = ""
    \/ v.t = "number" /\ v.v = 0
    \/ v.t = "boolean" /\ ~v.v

\* `Array.isArray(v)`
IsArray(v) == v.t = "array"

\* `Object.keys(v).length` (`v.length` for an array)
KeyCount(v) == IF v.t \in {"object", "array"} THEN Len(v.e) ELSE 0

\* Array.prototype.join
RECURSIVE Join(_, _)
Join(parts, sep) ==
    IF Len(parts) = 0 THEN ""
    ELSE IF Len(parts) = 1 THEN parts[1]
    ELSE parts[1] \o sep \o Join(Tail(parts), sep)

\* JSON.stringify of a string without characters that need escaping.
Quote(s) == "\"" \o s \o "\""

\* JSON.stringify of a boolean
BoolText(b) == IF b THEN "true" ELSE "false"

\* objectToGraphQLParams(obj)
RECURSIVE objectToGraphQLParams(_)
objectToGraphQLParams(obj) ==
    IF obj.t \in {"undefined", "null"} THEN "null"
    ELSE IF obj.t = "string" THEN Quote(obj.v)
    ELSE IF obj.t = "number" THEN ToString(obj.v)
    ELSE IF obj.t = "boolean" THEN BoolText(obj.v)
    ELSE IF obj.t = "array"
    THEN "[" \o Join([i \in 1..Len(obj.e) |->
                         objectToGraphQLParams(obj.e[i])], ", ") \o "]"
    ELSE "{" \o Join([i \in 1..Len(obj.e) |->
                         obj.e[i][1] \o ": "
                            \o objectToGraphQLParams(obj.e[i][2])], ", ")
             \o "}"

\* The entries of an object JSON.stringify keeps: those whose value is not
\* undefined.
RECURSIVE Defined(_)
Defined(entries) ==
    IF Len(entries) = 0 THEN <<>>
    ELSE IF entries[1][2].t = "undefined" THEN Defined(Tail(entries))
    ELSE <<entries[1]>> \o Defined(Tail(entries))

\* JSON.stringify(v).replace(/"([^"]+)":/g, '$1:') for a value v that is not
\* undefined: compact JSON with the quotes of the keys removed.  (The strings
\* of this model hold no quote, so the pattern matches keys only.)
RECURSIVE unquotedJson(_)
unquotedJson(v) ==
    IF v.t \in {"undefined", "null"} THEN "null"
    ELSE IF v.t = "string" THEN Quote(v.v)
    ELSE IF v.t = "number" THEN ToString(v.v)
    ELSE IF v.t = "boolean" THEN BoolText(v.v)
    ELSE IF v.t = "array"
    THEN "[" \o Join([i \in 1..Len(v.e) |-> unquotedJson(v.e[i])], ",")
             \o "]"
    ELSE LET kept == Defined(v.e)
         IN "{" \o Join([i \in 1..Len(kept) |->
                            kept[i][1] \o ":" \o unquotedJson(kept[i][2])],
                        ",") \o "}"

\* JSON.stringify(undefined) is undefined, and `.replace` on it throws.
StringifyThrows(v) == v.t = "undefined"

\* `returning` with its default and the array form joined by a blank.
Returning(r) ==
    IF r.t = "undefined" THEN "affected_rows"
    ELSE IF r.t = "array" THEN Join([i \in 1..Len(r.e) |-> r.e[i].v], " ")
    ELSE r.v

\* `op.returning || 'affected_rows'`
ReturningOr(r) == IF Falsy(r) THEN "affected_rows" ELSE r.v

\* What an operation does before any I/O: it throws, or hands a document to
\* mutate().
Throw(kind, msg) == [kind |-> kind, msg |-> msg, out |-> "throw"]
Send(fields) == [out |-> "send", fields |-> fields]

\* One top-level field of a document: its alias ("" for none), its name, the
\* text of its argument list, the text of every where filter in it, and its
\* selection.
Field(alias, root, table, args, wheres, sel) ==
    [alias |-> alias, root |-> root, table |-> table, args |-> args,
     wheres |-> wheres, sel |-> sel]

\* obj[key], undefined when the object has no such entry.
RECURSIVE Lookup(_, _)
Lookup(entries, key) ==
    IF Len(entries) = 0 THEN Undef
    ELSE IF entries[1][1] = key THEN entries[1][2]
    ELSE Lookup(Tail(entries), key)

Prop(obj, key) == IF obj.t = "object" THEN Lookup(obj.e, key) ELSE Undef

-----------------------------------------------------------------------------
(* Part II: GraphQLService of src/unnamed/part_005 *)

\* The on_conflict clause insert() and batch() write.
onConflictText(oc) ==
    "on_conflict: {constraint: " \o Prop(oc, "constraint").v
       \o ", update_columns: ["
       \o Join([i \in 1..Len(Prop(oc, "update_columns").e) |->
                   Prop(oc, "update_columns").e[i].v], ", ")
       \o "]"
       \o (IF Falsy(Prop(oc, "where")) THEN ""
           ELSE ", where: " \o objectToGraphQLParams(Prop(oc, "where")))
       \o "}"

\* insert(): the data check that only rejects a falsy `data`.
insertRejects(data) == Falsy(data)

\* insert(tableName, data, onConflict, returning)
insert(tableName, data, onConflict, returning) ==
    IF insertRejects(data)
    THEN Throw("ValidationError", "Data is required for insert operation")
    ELSE Send(<<Field("", "insert", tableName,
                      "objects: "
                         \o objectToGraphQLParams(
                               IF IsArray(data) THEN data ELSE Arr(<<data>>))
                         \o (IF Falsy(onConflict) THEN ""
                             ELSE ", " \o onConflictText(onConflict)),
                      <<>>, Returning(returning))>>)

\* update() and delete() taking any where that is not null or undefined.
whereMissing_NullOnly(where) == Falsy(where)

\* update() and delete(): `!where || Object.keys(where).length === 0`
whereMissing(where) == Falsy(where) \/ KeyCount(where) = 0

\* update(tableName, data, where, returning)
update(tableName, data, where, returning) ==
    IF Falsy(data) \/ KeyCount(data) = 0
    THEN Throw("ValidationError", "Data is required for update operation")
    ELSE IF whereMissing(where)
    THEN Throw("ValidationError",
               "Where clause is required for update operation")
    ELSE Send(<<Field("", "update", tableName,
                      "_set: " \o objectToGraphQLParams(data)
                         \o ", where: " \o objectToGraphQLParams(where),
                      <<objectToGraphQLParams(where)>>,
                      Returning(returning))>>)

\* delete(tableName, where, returning)
delete(tableName, where, returning) ==
    IF whereMissing(where)
    THEN Throw("ValidationError",
               "Where clause is required for delete operation")
    ELSE Send(<<Field("", "delete", tableName,
                      "where: " \o objectToGraphQLParams(where),
                      <<objectToGraphQLParams(where)>>,
                      Returning(returning))>>)

\* batch(): what the map callback makes of one operation.
batchField(op) ==
    LET alias == IF Falsy(op.alias) THEN op.type \o "_" \o op.table
                 ELSE op.alias.v
    IN CASE op.type = "insert" ->
              Field(alias, "insert", op.table,
                    "objects: "
                       \o objectToGraphQLParams(
                             IF IsArray(op.data) THEN op.data
                             ELSE Arr(<<op.data>>))
                       \o ","
                       \o (IF Falsy(op.onConflict) THEN ""
                           ELSE " " \o onConflictText(op.onConflict)),
                    <<>>, ReturningOr(op.returning))
         [] op.type = "update" ->
              Field(alias, "update", op.table,
                    "_set: " \o objectToGraphQLParams(op.data)
                       \o ", where: " \o objectToGraphQLParams(op.where),
                    <<objectToGraphQLParams(op.where)>>,
                    ReturningOr(op.returning))
         [] op.type = "delete" ->
              Field(alias, "delete", op.table,
                    "where: " \o objectToGraphQLParams(op.where),
                    <<objectToGraphQLParams(op.where)>>,
                    ReturningOr(op.returning))
         [] OTHER -> Throw("ValidationError", "Invalid operation type")

\* The first operation (in order) whose callback throws, 0 if none does.
RECURSIVE FirstThrow(_, _)
FirstThrow(results, i) ==
    IF i > Len(results) THEN 0
    ELSE IF "out" \in DOMAIN results[i] THEN i
    ELSE FirstThrow(results, i + 1)

\* operations.map(...) keeping the first field only.
Mapped_FirstOnly(results) ==
    IF FirstThrow(results, 1) # 0 THEN results[FirstThrow(results, 1)]
    ELSE Send(<<results[1]>>)

\* operations.map(...): the exception of the first callback that throws, or
\* the fields.
Mapped(results) ==
    IF FirstThrow(results, 1) # 0 THEN results[FirstThrow(results, 1)]
    ELSE Send(results)

\* batch(): `!operations.length`
batchEmpty(operations) == Len(operations) = 0

\* batch(operations)
batch(operations) ==
    IF batchEmpty(operations)
    THEN Throw("ValidationError", "No operations provided for batch")
    ELSE Mapped([i \in 1..Len(operations) |-> batchField(operations[i])])

\* updateMany(tableName, data, returning): items is the list `data`, or
\* null.
updateMany(tableName, items, returning) ==
    IF Falsy(items) \/ KeyCount(items) = 0
    THEN Throw("ValidationError",
               "Data is required for updateMany operation")
    ELSE batch([i \in 1..Len(items.e) |->
                  [alias |-> Str("update_" \o ToString(i - 1)),
                   table |-> tableName,
                   data |-> Prop(items.e[i], "data"),
                   onConflict |-> Undef,
                   returning |-> Str(Returning(returning)),
                   where |-> Prop(items.e[i], "where"),
                   type |-> "update"]])


\* The top-level field of a query: the pieces written after the table name up
\* to the selection, in the order they are written, and their concatenation.
QueryField(root, table, pieces, wheres, sel) ==
    [alias |-> "", root |-> root, table |-> table,
     args |-> Join(pieces, ""), wheres |-> wheres, sel |-> sel,
     pieces |-> pieces]

\* The pieces without the empty ones.
RECURSIVE Written(_)
Written(pieces) ==
    IF Len(pieces) = 0 THEN <<>>
    ELSE IF pieces[1] = "" THEN Written(Tail(pieces))
    ELSE <<pieces[1]>> \o Written(Tail(pieces))

\* objectToGraphQLSelection(obj)
RECURSIVE objectToGraphQLSelection(_)
objectToGraphQLSelection(obj) ==
    Join(Written([i \in 1..Len(obj.e) |->
             IF obj.e[i][2] = Bool(TRUE) THEN obj.e[i][1]
             ELSE IF obj.e[i][2].t = "object"
             THEN obj.e[i][1] \o " { "
                     \o objectToGraphQLSelection(obj.e[i][2]) \o " }"
             ELSE ""]), " ")

\* get(): selectStr
selectStr(select) ==
    IF IsArray(select)
    THEN Join([i \in 1..Len(select.e) |-> select.e[i].v], " ")
    ELSE IF select.t = "object" THEN objectToGraphQLSelection(select)
    ELSE select.v

\* get(): the order_by text
orderByStr(orderBy) ==
    IF IsArray(orderBy)
    THEN "[" \o Join([i \in 1..Len(orderBy.e) |->
                         objectToGraphQLParams(orderBy.e[i])], ", ") \o "]"
    ELSE objectToGraphQLParams(orderBy)

\* get(): the selection: `if (aggregate) ... else ...`
getSelection(select, aggregate) ==
    IF ~Falsy(aggregate) THEN "aggregate { " \o aggregate.v \o " }"
    ELSE selectStr(select)

\* get(tableName, options) up to this.query(query)
get(tableName, options) ==
    LET select == Prop(options, "select")
        where == Prop(options, "where")
        limit == Prop(options, "limit")
        offset == Prop(options, "offset")
        orderBy == Prop(options, "orderBy")
        aggregate == Prop(options, "aggregate")
        hasWhere == ~Falsy(where)
        hasLimit == ~Falsy(limit)
        hasOffset == ~Falsy(offset)
        hasOrderBy == ~Falsy(orderBy)
        Open(before) == IF before THEN "" ELSE "("
        Close(before) == IF before THEN "" ELSE ")"
        wherePieces ==
            IF hasWhere
            THEN <<"(", "where: " \o objectToGraphQLParams(where), ")">>
            ELSE <<>>
        limitPieces ==
            IF limit.t # "undefined"
            THEN <<Open(hasWhere), "limit: " \o ToString(limit.v),
                   Close(hasWhere)>>
            ELSE <<>>
        offsetPieces ==
            IF offset.t # "undefined"
            THEN <<Open(hasWhere \/ hasLimit),
                   "offset: " \o ToString(offset.v),
                   Close(hasWhere \/ hasLimit)>>
            ELSE <<>>
        orderByPieces ==
            IF hasOrderBy
            THEN <<Open(hasWhere \/ hasLimit \/ hasOffset),
                   "order_by: " \o orderByStr(orderBy),
                   Close(hasWhere \/ hasLimit \/ hasOffset)>>
            ELSE <<>>
        closing ==
            IF \/ hasWhere /\ (hasLimit \/ hasOffset \/ hasOrderBy)
               \/ ~hasWhere /\ hasLimit /\ (hasOffset \/ hasOrderBy)
               \/ ~hasWhere /\ ~hasLimit /\ hasOffset /\ hasOrderBy
            THEN <<")">>
            ELSE <<>>
    IN Send(<<QueryField("query", tableName,
                         Written(wherePieces \o limitPieces \o offsetPieces
                                    \o orderByPieces \o closing),
                         IF hasWhere THEN <<objectToGraphQLParams(where)>>
                         ELSE <<>>,
                         getSelection(select, aggregate))>>)

-----------------------------------------------------------------------------
(* Part II: GraphQLService of src/src/runtime/database/hasura/graphql-service.ts *)

\* `${returning}` of a parameter that was not joined: an array prints with
\* commas.
legacyReturning(r) ==
    IF r.t = "undefined" THEN "affected_rows"
    ELSE IF r.t = "array" THEN Join([i \in 1..Len(r.e) |-> r.e[i].v], ",")
    ELSE r.v

\* JSON.stringify(onConflict) with the quotes of keys and of word-only
\* strings removed by the two replace() calls.
RECURSIVE bareJson(_)
bareJson(v) ==
    IF v.t \in {"undefined", "null"} THEN "null"
    ELSE IF v.t = "string" THEN v.v
    ELSE IF v.t = "number" THEN ToString(v.v)
    ELSE IF v.t = "boolean" THEN BoolText(v.v)
    ELSE IF v.t = "array"
    THEN "[" \o Join([i \in 1..Len(v.e) |-> bareJson(v.e[i])], ",") \o "]"
    ELSE LET kept == Defined(v.e)
         IN "{" \o Join([i \in 1..Len(kept) |->
                            kept[i][1] \o ":" \o bareJson(kept[i][2])], ",")
                \o "}"

TypeErrorOfUndefined ==
    Throw("TypeError", "Cannot read properties of undefined")

\* createInsertMutation(tableName, data, onConflict, returning)
createInsertMutation(tableName, data, onConflict, returning) ==
    IF Falsy(data) THEN Throw("Error", "error.insertMissingData")
    ELSE IF (IF IsArray(data) THEN Len(data.e) ELSE 1) = 0
    THEN Throw("Error", "error.insertMissingData")
    ELSE Send(<<Field("", "insert", tableName,
                      "objects: "
                         \o unquotedJson(IF IsArray(data) THEN data
                                         ELSE Arr(<<data>>))
                         \o (IF Falsy(onConflict) THEN ""
                             ELSE ", on_conflict: " \o bareJson(onConflict)),
                      <<>>, returning)>>)

\* insert(tableName, data, onConflict, returning) of the legacy service
legacyInsert(tableName, data, onConflict, returning) ==
    createInsertMutation(tableName, data, onConflict, Returning(returning))

\* update(tableName, data, where, returning) of the legacy service, with
\* createUpdateMutation
legacyUpdate(tableName, data, where, returning) ==
    IF whereMissing(where)
    THEN Throw("ValidationError", "error.whereClauseRequired")
    ELSE IF StringifyThrows(data) THEN TypeErrorOfUndefined
    ELSE Send(<<Field("", "update", tableName,
                      "where: " \o unquotedJson(where)
                         \o ", _set: " \o unquotedJson(data),
                      <<unquotedJson(where)>>,
                      legacyReturning(returning))>>)

\* delete(tableName, where, returning) of the legacy service, with
\* createDeleteMutation
legacyDelete(tableName, where, returning) ==
    IF whereMissing(where)
    THEN Throw("ValidationError", "error.whereClauseRequired")
    ELSE Send(<<Field("", "delete", tableName,
                      "where: " \o unquotedJson(where),
                      <<unquotedJson(where)>>,
                      legacyReturning(returning))>>)

\* createUpdateManyMutation(tableName, updates, returning): one
\* update_<table>_many field whose updates are read from `where` and `_set`.
createUpdateManyMutation(tableName, updates, returning) ==
    IF ~IsArray(updates) THEN TypeErrorOfUndefined
    ELSE IF \E i \in 1..Len(updates.e) :
               \/ StringifyThrows(Prop(updates.e[i], "where"))
               \/ StringifyThrows(Prop(updates.e[i], "_set"))
    THEN TypeErrorOfUndefined
    ELSE Send(<<Field("", "update_many", tableName,
                      "updates: ["
                         \o Join([i \in 1..Len(updates.e) |->
                               "{where: "
                                  \o unquotedJson(Prop(updates.e[i], "where"))
                                  \o ", _set: "
                                  \o unquotedJson(Prop(updates.e[i], "_set"))
                                  \o "}"], ", ")
                         \o "]",
                      [i \in 1..Len(updates.e) |->
                          unquotedJson(Prop(updates.e[i], "where"))],
                      legacyReturning(returning))>>)

\* updateMany(tableName, data, returning) of the legacy service: no check
\* of its own.
legacyUpdateMany(tableName, data, returning) ==
    createUpdateManyMutation(tableName, data, returning)

\* createBatchMutation(): what the map callback makes of operation number
\* index (from 0).
legacyBatchField(op, index) ==
    LET alias == "op" \o ToString(index)
    IN CASE op.type = "insert" ->
              IF StringifyThrows(op.data) THEN TypeErrorOfUndefined
              ELSE Field(alias, "insert", op.table,
                         "objects: " \o unquotedJson(op.data)
                            \o (IF Falsy(op.onConflict) THEN ""
                                ELSE " , on_conflict: "
                                        \o unquotedJson(op.onConflict)),
                         <<>>, ReturningOr(op.returning))
         [] op.type = "update" ->
              IF StringifyThrows(op.where) \/ StringifyThrows(op.data)
              THEN TypeErrorOfUndefined
              ELSE Field(alias, "update", op.table,
                         "where: " \o unquotedJson(op.where)
                            \o " _set: " \o unquotedJson(op.data),
                         <<unquotedJson(op.where)>>,
                         ReturningOr(op.returning))
         [] op.type = "delete" ->
              IF StringifyThrows(op.where) THEN TypeErrorOfUndefined
              ELSE Field(alias, "delete", op.table,
                         "where: " \o unquotedJson(op.where),
                         <<unquotedJson(op.where)>>,
                         ReturningOr(op.returning))
         [] OTHER -> Throw("ValidationError", "error.invalidOperationType")

\* batch(operations) of the legacy service, with createBatchMutation
legacyBatch(operations) ==
    IF batchEmpty(operations)
    THEN Throw("ValidationError", "error.noOperationsBatchProvided")
    ELSE Mapped([i \in 1..Len(operations) |->
                    legacyBatchField(operations[i], i - 1)])


\* `${select}` in a template: String(select)
templateText(select) ==
    IF IsArray(select)
    THEN Join([i \in 1..Len(select.e) |-> select.e[i].v], ",")
    ELSE IF select.t = "object" THEN "[object Object]"
    ELSE select.v

\* JSON.stringify(orderBy).replace(/"([^"]+)":\s*"([^"]+)"/g, '$1: $2') for
\* an object of column: direction entries, or an array of such objects.
RECURSIVE orderByJson(_)
orderByJson(orderBy) ==
    IF IsArray(orderBy)
    THEN "[" \o Join([i \in 1..Len(orderBy.e) |->
                         orderByJson(orderBy.e[i])], ",") \o "]"
    ELSE "{" \o Join([i \in 1..Len(orderBy.e) |->
                         orderBy.e[i][1] \o ": " \o orderBy.e[i][2].v], ",")
             \o "}"

\* The pieces of `(${args.join(", ")})`
RECURSIVE Joined(_)
Joined(args) ==
    IF Len(args) = 0 THEN <<>>
    ELSE IF Len(args) = 1 THEN args
    ELSE <<args[1], ", ">> \o Joined(Tail(args))

\* createQuery(tableName, select, where, limit, offset, orderBy, aggregate)
createQuery(tableName, select, where, limit, offset, orderBy, aggregate) ==
    LET args ==
            (IF ~Falsy(where) THEN <<"where: " \o unquotedJson(where)>>
             ELSE <<>>)
            \o (IF ~Falsy(limit) THEN <<"limit: " \o ToString(limit.v)>>
                ELSE <<>>)
            \o (IF ~Falsy(offset) THEN <<"offset: " \o ToString(offset.v)>>
                ELSE <<>>)
            \o (IF ~Falsy(orderBy)
                THEN <<"order_by: " \o orderByJson(orderBy)>>
                ELSE <<>>)
        pieces == IF Len(args) > 0 THEN <<"(">> \o Joined(args) \o <<")">>
                  ELSE <<>>
        wheres == IF ~Falsy(where) THEN <<unquotedJson(where)>> ELSE <<>>
    IN Send(<<QueryField("query", tableName, pieces, wheres,
                         templateText(select))>>
            \o (IF ~Falsy(aggregate)
                THEN <<QueryField("aggregate", tableName \o "_aggregate",
                                  pieces, wheres, aggregate.v)>>
                ELSE <<>>))

\* get(tableName, options) of the legacy service
legacyGet(tableName, options) ==
    createQuery(tableName, Prop(options, "select"), Prop(options, "where"),
                Prop(options, "limit"), Prop(options, "offset"),
                Prop(options, "orderBy"), Prop(options, "aggregate"))

-----------------------------------------------------------------------------
(* Part II: the request and the operations as steps *)

\* What client.request() can come back with: a result, or an exception.
\* An exception is described by its cause and by what handleRequest() reads
\* of it: whether its message includes 'Network', whether it carries
\* response.errors, and the extensions.code and the message of the first of
\* them (for an exception without response.errors, its own message).
Failure(cause, network, gql, code, message) ==
    [ok |-> FALSE, cause |-> cause, network |-> network, gql |-> gql,
     code |-> code, message |-> message]

\* The request resolved: there is no exception to read.
Success ==
    [ok |-> TRUE, cause |-> "-", network |-> FALSE, gql |-> FALSE,
     code |-> "-", message |-> "-"]

\* No request was made.
NoResponse == Failure("-", FALSE, FALSE, "-", "-")

\* The connectivity failures are those of fetch() in Firefox and in Node;
\* the last GraphQL error is one whose text happens to include 'Network'.
Responses ==
    { Success,
      Failure("connectivity", TRUE, FALSE, "-",
              "NetworkError when attempting to fetch resource."),
      Failure("connectivity", FALSE, FALSE, "-", "fetch failed"),
      Failure("other", FALSE, FALSE, "-", "Unexpected token < in JSON"),
      Failure("graphql", FALSE, TRUE, "permission-denied", "no access"),
      Failure("graphql", FALSE, TRUE, "invalid-jwt", "bad token"),
      Failure("graphql", FALSE, TRUE, "validation-failed", "no such field"),
      Failure("graphql", TRUE, TRUE, "validation-failed",
              "field Network not found") }

\* The debug option as configured, and the flag the constructors make of it
\* (`debug: boolean = false`, `options.debug || false`).
DebugOptions == {"unset", "off", "on"}
debugOf(option) == option = "on"

\* What the caller gets: "ok" or the kind of the error thrown, its message,
\* its `details` (NoResponse when it has none), and the number of console
\* lines written on the way.
Outcome(kind, msg, details, logged) ==
    [kind |-> kind, msg |-> msg, details |-> details, logged |-> logged]

Logged(debug, lines) == IF debug THEN lines ELSE 0

\* handleRequest() letting a failure pass as a result when debug is on.
handleRequest_DebugSwallows(resp, debug) ==
    IF resp.ok \/ debug THEN Outcome("ok", "-", NoResponse, Logged(debug, 3))
    ELSE Outcome("GraphQLServiceError", resp.message, NoResponse, 0)

\* mutate() and handleRequest() of part_005 around client.request()
handleRequest(resp, debug) ==
    IF resp.ok THEN Outcome("ok", "-", NoResponse, Logged(debug, 3))
    ELSE IF resp.network
    THEN Outcome("NetworkError", "Network error occurred", NoResponse,
                 Logged(debug, 2))
    ELSE IF resp.gql
    THEN IF resp.code = "permission-denied"
         THEN Outcome("PermissionDeniedError", "Permission denied",
                      NoResponse, Logged(debug, 2))
         ELSE IF resp.code = "invalid-jwt"
         THEN Outcome("PermissionDeniedError",
                      "Invalid authentication token", NoResponse,
                      Logged(debug, 2))
         ELSE Outcome("GraphQLError", resp.message, resp, Logged(debug, 2))
    ELSE Outcome("GraphQLServiceError", resp.message, NoResponse,
                 Logged(debug, 2))

\* mutate() and handleRequest() of the legacy service around
\* client.request()
legacyHandleRequest(resp, debug) ==
    IF resp.ok THEN Outcome("ok", "-", NoResponse, Logged(debug, 1))
    ELSE IF resp.network
    THEN Outcome("NetworkError", "error.networkError", NoResponse,
                 Logged(debug, 1))
    ELSE IF resp.gql
    THEN IF resp.code = "permission-denied"
         THEN Outcome("PermissionDeniedError", "error.permissionDenied",
                      NoResponse, Logged(debug, 1))
         ELSE IF resp.code = "invalid-jwt"
         THEN Outcome("PermissionDeniedError", "error.invalidJwt",
                      NoResponse, Logged(debug, 1))
         ELSE Outcome("GraphQLError", "error.graphQLOperationFailed",
                      NoResponse, Logged(debug, 1))
    ELSE Outcome("GraphQLServiceError", "error.unexpectedError", NoResponse,
                 Logged(debug, 1))

\* The two services.
Variants == {"service", "legacy"}

\* Inputs.
Tables == {"users", "posts"}
Filter1 == Obj(<< <<"id", Obj(<< <<"_eq", Num(1)>> >>)>> >>)
Row1 == Obj(<< <<"name", Str("a")>> >>)
Conflict1 ==
    Obj(<< <<"constraint", Str("users_pkey")>>,
           <<"update_columns", Arr(<<Str("name")>>)>> >>)
WhereVals == {Undef, Null, Obj(<<>>), Filter1}
UpdateData == {Undef, Null, Obj(<<>>), Row1}
InsertData == {Undef, Null, Arr(<<>>), Row1, Arr(<<Row1>>)}
ReturningVals == {Undef, Str("id"), Arr(<<Str("id"), Str("name")>>)}
ConflictVals == {Null, Conflict1}

BatchOp(type, data, where, alias) ==
    [alias |-> alias, table |-> "users", data |-> data, onConflict |-> Undef,
     returning |-> Undef, where |-> where, type |-> type]

BatchOps ==
    {BatchOp("insert", Row1, Undef, a) : a \in {Undef, Str("mine")}}
      \cup {BatchOp("update", Row1, w, a) :
               w \in WhereVals, a \in {Undef, Str("mine")}}
      \cup {BatchOp("delete", Undef, w, a) :
               w \in WhereVals, a \in {Undef, Str("mine")}}
      \cup {BatchOp("upsert", Row1, Filter1, Undef)}

\* The items of updateMany(): {data, where} as the interface types them, or
\* {where, _set} as createUpdateManyMutation() reads them.
UpdateItems ==
    {Obj(<< <<"data", Row1>>, <<"where", w>> >>) : w \in WhereVals}
      \cup {Obj(<< <<"where", w>>, <<"_set", Row1>> >>) : w \in WhereVals}

SeqsUpTo(S, n) == UNION {[1..k -> S] : k \in 0..n}

\* Filters with nested groups, every kind of operand, and an operand that
\* is undefined.
Nested1 ==
    Obj(<< <<"_and",
             Arr(<<Obj(<< <<"role", Obj(<< <<"_eq", Str("admin")>> >>)>> >>),
                   Obj(<< <<"_not",
                            Arr(<<Obj(<< <<"age",
                                           Obj(<< <<"_in",
                                                    Arr(<<Num(1), Num(2)>>)
                                                  >> >>)>> >>)>>)>> >>),
                   Obj(<< <<"_or",
                            Arr(<<Obj(<< <<"active",
                                           Obj(<< <<"_eq", Bool(TRUE)>> >>)
                                         >> >>),
                                  Obj(<< <<"boss",
                                           Obj(<< <<"_eq", Null>> >>)
                                         >> >>)>>)>> >>)>>)>> >>)
Unset1 == Obj(<< <<"id", Obj(<< <<"_eq", Undef>> >>)>> >>)
Admins == Obj(<< <<"role", Obj(<< <<"_eq", Str("admin")>> >>)>> >>)

\* The options of get(): every option but select is given or left out.
Option(name, values) == {<<>>} \cup {<< <<name, v>> >> : v \in values}

GetOptions ==
    {Obj(<< <<"select", sel>> >> \o w \o l \o o \o ob \o a) :
        sel \in {Str("id name"), Arr(<<Str("id"), Str("name")>>),
                 Obj(<< <<"id", Bool(TRUE)>>,
                        <<"posts", Obj(<< <<"title", Bool(TRUE)>> >>)>> >>)},
        w \in Option("where", {Admins, Nested1, Unset1}),
        l \in Option("limit", {Num(0), Num(10)}),
        o \in Option("offset", {Num(5)}),
        ob \in Option("orderBy",
                      {Obj(<< <<"name", Str("asc")>> >>),
                       Arr(<<Obj(<< <<"name", Str("asc")>> >>),
                             Obj(<< <<"id", Str("desc")>> >>)>>)}),
        a \in Option("aggregate", {Str("count")})}

Input(table, data, where, returning, onConflict, operations) ==
    [table |-> table, data |-> data, onConflict |-> onConflict,
     returning |-> returning, where |-> where, operations |-> operations,
     options |-> Undef]

\* The arguments of get(tableName, options)
GetInput(table, options) ==
    [table |-> table, data |-> Undef, onConflict |-> Undef,
     returning |-> Undef, where |-> Undef, operations |-> <<>>,
     options |-> options]

\* The operation `op` of a service up to its request.
Run(variant, op, input) ==
    CASE op = "insert" ->
           IF variant = "service"
           THEN insert(input.table, input.data, input.onConflict,
                       input.returning)
           ELSE legacyInsert(input.table, input.data, input.onConflict,
                             input.returning)
      [] op = "update" ->
           IF variant = "service"
           THEN update(input.table, input.data, input.where, input.returning)
           ELSE legacyUpdate(input.table, input.data, input.where,
                             input.returning)
      [] op = "delete" ->
           IF variant = "service"
           THEN delete(input.table, input.where, input.returning)
           ELSE legacyDelete(input.table, input.where, input.returning)
      [] op = "updateMany" ->
           IF variant = "service"
           THEN updateMany(input.table, input.data, input.returning)
           ELSE legacyUpdateMany(input.table, input.data, input.returning)
      [] op = "batch" ->
           IF variant = "service" THEN batch(input.operations)
           ELSE legacyBatch(input.operations)
      [] op = "get" ->
           IF variant = "service" THEN get(input.table, input.options)
           ELSE legacyGet(input.table, input.options)

\* The operation's outcome as the caller sees it, with the number of
\* network calls made, the document sent and what the endpoint did.
Finish(variant, op, input, r, resp, option) ==
    IF r.out = "throw"
    THEN [calls |-> 0, resp |-> NoResponse, op |-> op, kind |-> r.kind,
          msg |-> r.msg, fields |-> <<>>, option |-> option,
          details |-> NoResponse, logged |-> 0, variant |-> variant,
          input |-> input]
    ELSE LET h == IF variant = "service"
                  THEN handleRequest(resp, debugOf(option))
                  ELSE legacyHandleRequest(resp, debugOf(option))
         IN [calls |-> 1, resp |-> resp, op |-> op, kind |-> h.kind,
             msg |-> h.msg, fields |-> r.fields, option |-> option,
             details |-> h.details, logged |-> h.logged, variant |-> variant,
             input |-> input]

\* One call from its arguments to its outcome.
Perform(variant, op, input, resp, option) ==
    Finish(variant, op, input, Run(variant, op, input), resp, option)

SvcInsert ==
    /\ svc = NoSvc
    /\ \E v \in Variants, tbl \in Tables, data \in InsertData,
          oc \in ConflictVals, ret \in ReturningVals, resp \in Responses,
          option \in DebugOptions :
           svc' = Perform(v, "insert", Input(tbl, data, Undef, ret, oc, <<>>),
                          resp, option)
    /\ UNCHANGED <<tmVars, conn>>

SvcGet ==
    /\ svc = NoSvc
    /\ \E v \in Variants, tbl \in Tables, options \in GetOptions,
          resp \in Responses, option \in DebugOptions :
           svc' = Perform(v, "get", GetInput(tbl, options), resp, option)
    /\ UNCHANGED <<tmVars, conn>>

SvcUpdate ==
    /\ svc = NoSvc
    /\ \E v \in Variants, tbl \in Tables, data \in UpdateData,
          where \in WhereVals, ret \in ReturningVals, resp \in Responses,
          option \in DebugOptions :
           svc' = Perform(v, "update",
                          Input(tbl, data, where, ret, Undef, <<>>),
                          resp, option)
    /\ UNCHANGED <<tmVars, conn>>

SvcDelete ==
    /\ svc = NoSvc
    /\ \E v \in Variants, tbl \in Tables, where \in WhereVals,
          ret \in ReturningVals, resp \in Responses,
          option \in DebugOptions :
           svc' = Perform(v, "delete",
                          Input(tbl, Undef, where, ret, Undef, <<>>),
                          resp, option)
    /\ UNCHANGED <<tmVars, conn>>

SvcUpdateMany ==
    /\ svc = NoSvc
    /\ \E v \in Variants,
          items \in {Null} \cup {Arr(q) : q \in SeqsUpTo(UpdateItems, MaxOps)},
          resp \in Responses, option \in DebugOptions :
           svc' = Perform(v, "updateMany",
                          Input("users", items, Undef, Undef, Undef, <<>>),
                          resp, option)
    /\ UNCHANGED <<tmVars, conn>>

SvcBatch ==
    /\ svc = NoSvc
    /\ \E v \in Variants, operations \in SeqsUpTo(BatchOps, MaxOps),
          resp \in Responses, option \in DebugOptions :
           svc' = Perform(v, "batch",
                          Input("-", Undef, Undef, Undef, Undef, operations),
                          resp, option)
    /\ UNCHANGED <<tmVars, conn>>

\* The caller takes the outcome; the service keeps nothing of the call.
SvcReturn ==
    /\ svc # NoSvc
    /\ svc' = NoSvc
    /\ UNCHANGED <<tmVars, conn>>

InitSvc ==
    InitTM /\ isClient /\ refreshEndpoint /\ svc = NoSvc /\ conn = NoConn

NextSvc ==
    \/ SvcGet
    \/ SvcInsert
    \/ SvcUpdate
    \/ SvcDelete
    \/ SvcUpdateMany
    \/ SvcBatch
    \/ SvcReturn

SpecSvc == InitSvc /\ [][NextSvc]_vars

-----------------------------------------------------------------------------
(* Part III: header objects *)

\* A header object is the sequence of its <<name, value>> entries in
\* insertion order, no name twice.
HeaderNames == {"X-Role", "x-role", "Authorization", "authorization"}

\* key.toLowerCase() kept as written.
toLowerCase_Kept(key) == key

\* key.toLowerCase()
toLowerCase(key) ==
    CASE key = "X-Role" -> "x-role"
      [] key = "Authorization" -> "authorization"
      [] OTHER -> key

\* obj[key], "-" for undefined.
RECURSIVE HGet(_, _)
HGet(obj, key) ==
    IF Len(obj) = 0 THEN "-"
    ELSE IF obj[1][1] = key THEN obj[1][2]
    ELSE HGet(Tail(obj), key)

\* obj[key] = value: an existing entry keeps its place.
HSet(obj, key, value) ==
    IF HGet(obj, key) = "-" THEN Append(obj, <<key, value>>)
    ELSE [i \in 1..Len(obj) |->
             IF obj[i][1] = key THEN <<key, value>> ELSE obj[i]]

\* { ...a, ...b }
RECURSIVE Spread(_, _)
Spread(a, b) ==
    IF Len(b) = 0 THEN a
    ELSE Spread(HSet(a, b[1][1], b[1][2]), Tail(b))

\* The header objects callers pass.
HeaderObjs ==
    { <<>>,
      << <<"X-Role", "admin">> >>,
      << <<"x-role", "user">> >>,
      << <<"Authorization", "Bearer cfg">> >>,
      << <<"X-Role", "admin">>, <<"x-role", "user">> >> }

\* `options?.headers` when the call gives none (it is no header object).
NoHeaders == << <<"none">> >>

-----------------------------------------------------------------------------
(* Part III: HasuraConnector *)

\* The last call made on the connector: what was asked, the headers that
\* went out with it ("none" if nothing went out), and the error thrown.
Call(op, perCall, sent, error) ==
    [op |-> op, perCall |-> perCall, sent |-> sent, error |-> error]

NoCall == Call("-", NoHeaders, NoHeaders, "-")

\* new HasuraConnector({url, wsUrl, headers}); wsClient is TRUE when wsUrl is
\* given and the code runs in a window.  connectionParams.headers is the
\* object this.headers refers to at that moment (wsShared), and that object
\* is options.headers when the caller gave one: config is the caller's
\* options.headers as it is now, config0 as it was given.
HasuraInit ==
    \E c \in HeaderObjs \cup {NoHeaders}, ws \in BOOLEAN :
        LET h == IF c = NoHeaders THEN <<>> ELSE c
        IN conn = [program |-> "HasuraConnector",
                   headers |-> h,
                   svcHeaders |-> h,
                   wsClient |-> ws,
                   wsParams |-> h,
                   wsShared |-> TRUE,
                   subs |-> 0,
                   steps |-> 0,
                   last |-> NoCall,
                   config |-> c,
                   config0 |-> c]

HasuraStep == conn.steps < MaxSteps

\* HasuraConnector.setHeaders(headers), with GraphQLService.setHeaders
HasuraSetHeaders(h) ==
    [conn EXCEPT !.headers = h,
                 !.svcHeaders = h,
                 !.wsShared = FALSE,
                 !.steps = @ + 1,
                 !.last = Call("setHeaders", h, NoHeaders, "-")]

\* HasuraConnector.setHeader(key, value), with GraphQLService.setHeader
HasuraSetHeader(key, value) ==
    [conn EXCEPT !.headers = HSet(@, key, value),
                 !.svcHeaders = HSet(@, key, value),
                 !.wsParams = IF conn.wsShared THEN HSet(@, key, value)
                              ELSE @,
                 !.config = IF conn.wsShared /\ @ # NoHeaders
                            THEN HSet(@, key, value)
                            ELSE @,
                 !.steps = @ + 1,
                 !.last = Call("setHeader", << <<key, value>> >>,
                               NoHeaders, "-")]

\* HasuraConnector.query / mutate (op) with options.headers = perCall: the
\* merged headers are set on the service, whose client sends its headers.
HasuraRequest(op, perCall) ==
    LET mergedHeaders == Spread(conn.headers, perCall)
        sending == IF perCall = NoHeaders THEN conn.svcHeaders
                   ELSE mergedHeaders
    IN [conn EXCEPT !.svcHeaders = sending,
                    !.steps = @ + 1,
                    !.last = Call(op, perCall, sending, "-")]

\* HasuraConnector.get / insert / update / updateMany / delete / batch: the
\* service's client sends its headers.
HasuraOperation(op) ==
    [conn EXCEPT !.steps = @ + 1,
                 !.last = Call(op, NoHeaders, conn.svcHeaders, "-")]

\* HasuraConnector.subscribe(): the connection is opened with
\* connectionParams.
HasuraSubscribe ==
    IF ~conn.wsClient
    THEN [conn EXCEPT !.steps = @ + 1,
                      !.last = Call("subscribe", NoHeaders, NoHeaders,
                                    "WebSocket client not initialized")]
    ELSE [conn EXCEPT !.subs = @ + 1,
                      !.steps = @ + 1,
                      !.last = Call("subscribe", NoHeaders, conn.wsParams,
                                    "-")]

DoSetHeaders ==
    /\ HasuraStep
    /\ \E h \in HeaderObjs : conn' = HasuraSetHeaders(h)
    /\ UNCHANGED <<tmVars, svc>>

DoSetHeader ==
    /\ HasuraStep
    /\ \E key \in {"x-role", "X-Role"}, value \in {"admin", "user"} :
          conn' = HasuraSetHeader(key, value)
    /\ UNCHANGED <<tmVars, svc>>

DoRequest ==
    /\ HasuraStep
    /\ \E op \in {"query", "mutate"}, perCall \in HeaderObjs \cup {NoHeaders} :
          conn' = HasuraRequest(op, perCall)
    /\ UNCHANGED <<tmVars, svc>>

DoOperation ==
    /\ HasuraStep
    /\ \E op \in {"get", "insert", "batch"} : conn' = HasuraOperation(op)
    /\ UNCHANGED <<tmVars, svc>>

DoSubscribe ==
    /\ HasuraStep
    /\ conn' = HasuraSubscribe
    /\ UNCHANGED <<tmVars, svc>>

InitHasura == InitTM /\ isClient /\ refreshEndpoint /\ svc = NoSvc /\ HasuraInit

NextHasura ==
    \/ DoSetHeaders
    \/ DoSetHeader
    \/ DoRequest
    \/ DoOperation
    \/ DoSubscribe

SpecHasura == InitHasura /\ [][NextHasura]_vars

-----------------------------------------------------------------------------
(* Part III: GraphQLClient of src/unnamed/part_009 *)

retryAttempts == 5

\* retryWait without the backoff: the base delay before every attempt.
retryWait_Fixed(retries) == 1000

\* retryWait(retries): the delay in ms before the next attempt.
retryWait(retries) ==
    IF 1000 * 2^retries < 16000 THEN 1000 * 2^retries ELSE 16000

\* What `await this.tokenManager.getValidToken()` gives query(): no token,
\* a token, or the rejection of a failed refresh.
TokenOutcomes == {"null", "tok", "rejected"}

\* Object.entries(headers).forEach(([key, value]) =>
\*     requestHeaders[key.toLowerCase()] = value)
RECURSIVE CopyLowered(_, _)
CopyLowered(requestHeaders, headers) ==
    IF Len(headers) = 0 THEN requestHeaders
    ELSE CopyLowered(HSet(requestHeaders, toLowerCase(headers[1][1]),
                          headers[1][2]),
                     Tail(headers))

\* query() up to httpClient.request(): the headers of the request.
requestHeaders(defaultHeaders, token, perCall) ==
    LET fromDefaults == IF defaultHeaders = NoHeaders THEN <<>>
                        ELSE CopyLowered(<<>>, defaultHeaders)
        withToken == IF token = "null" THEN fromDefaults
                     ELSE HSet(fromDefaults, "authorization",
                               "Bearer " \o token)
    IN IF perCall = NoHeaders THEN withToken
       ELSE CopyLowered(withToken, perCall)

\* new GraphQLClient(config); wsClient is TRUE when config.wsUrl is given and
\* import.meta.client holds.  The socket is opened by the first subscription.
\* auth is the token the last request was given ("null" for none), asked the
\* number of getValidToken() calls made, skipAuth the option of the last
\* request.
ClientInit ==
    \E d \in HeaderObjs \cup {NoHeaders}, ws \in BOOLEAN :
        conn = [program |-> "GraphQLClient",
                wsClient |-> ws,
                subs |-> 0,
                steps |-> 0,
                last |-> NoCall,
                retries |-> 0,
                defaultHeaders |-> d,
                auth |-> "null",
                socket |-> "idle",
                wait |-> 0,
                resumed |-> FALSE,
                dropped |-> 0,
                asked |-> 0,
                skipAuth |-> FALSE]

ClientStep == conn.steps < MaxSteps

\* query() asking for the token whatever options.skipAuth says.
ClientRequest_AlwaysAuth(op, perCall, skipAuth, token) ==
    IF token = "rejected"
    THEN [conn EXCEPT !.auth = token,
                      !.steps = @ + 1,
                      !.last = Call(op, perCall, NoHeaders,
                                    "Token refresh failed"),
                      !.asked = @ + 1,
                      !.skipAuth = skipAuth]
    ELSE [conn EXCEPT !.auth = token,
                      !.steps = @ + 1,
                      !.last = Call(op, perCall,
                                    requestHeaders(conn.defaultHeaders,
                                                   token, perCall),
                                    "-"),
                      !.asked = @ + 1,
                      !.skipAuth = skipAuth]

\* GraphQLClient.query / mutate (op) with options = {headers: perCall,
\* skipAuth}; token is what getValidToken() gives when it is asked.
ClientRequest(op, perCall, skipAuth, token) ==
    IF ~skipAuth /\ token = "rejected"
    THEN [conn EXCEPT !.auth = token,
                      !.steps = @ + 1,
                      !.last = Call(op, perCall, NoHeaders,
                                    "Token refresh failed"),
                      !.asked = @ + 1,
                      !.skipAuth = skipAuth]
    ELSE [conn EXCEPT !.auth = IF skipAuth THEN "null" ELSE token,
                      !.steps = @ + 1,
                      !.last = Call(op, perCall,
                                    requestHeaders(conn.defaultHeaders,
                                        IF skipAuth THEN "null" ELSE token,
                                        perCall),
                                    "-"),
                      !.asked = IF skipAuth THEN @ ELSE @ + 1,
                      !.skipAuth = skipAuth]

\* GraphQLClient.subscribe(): without a wsClient it logs and returns a no-op
\* unsubscribe; otherwise the subscription is registered and an idle socket
\* starts connecting.
ClientSubscribe ==
    IF ~conn.wsClient
    THEN [conn EXCEPT !.steps = @ + 1,
                      !.last = Call("subscribe", NoHeaders, NoHeaders, "-")]
    ELSE [conn EXCEPT !.subs = @ + 1,
                      !.socket = IF @ \in {"idle", "gaveup"} THEN "connecting"
                                 ELSE @,
                      !.steps = @ + 1,
                      !.last = Call("subscribe", NoHeaders, NoHeaders, "-")]

\* The unsubscribe function subscribe() returned: the last subscription to go
\* closes the socket.
ClientUnsubscribe ==
    [conn EXCEPT !.subs = @ - 1,
                 !.socket = IF conn.subs = 1 THEN "idle" ELSE @,
                 !.resumed = FALSE,
                 !.steps = @ + 1]

\* The socket opens and the server acknowledges: retries start again from 0.
WsConnected ==
    [conn EXCEPT !.socket = "connected", !.retries = 0]

\* The open socket is lost while subscriptions are active: a retry is due.
WsClosed ==
    [conn EXCEPT !.socket = "connecting", !.resumed = FALSE]

\* A connection attempt fails.  shouldRetry is always true, so it is retried
\* after retryWait(retries) unless retryAttempts retries have been made; then
\* the failure goes to the error handler of every subscription, which ends.
WsFailed ==
    IF conn.retries >= retryAttempts
    THEN [conn EXCEPT !.socket = "gaveup",
                      !.dropped = conn.subs,
                      !.subs = 0,
                      !.last = Call("subscribe", NoHeaders, NoHeaders,
                                    "Socket closed")]
    ELSE [conn EXCEPT !.wait = retryWait(conn.retries),
                      !.retries = @ + 1]

\* The server sends data for an active subscription: handlers.next runs.
WsNext == [conn EXCEPT !.resumed = TRUE]

DoClientRequest ==
    /\ ClientStep
    /\ \E op \in {"query", "mutate"}, perCall \in HeaderObjs \cup {NoHeaders},
          skipAuth \in BOOLEAN, token \in TokenOutcomes :
          conn' = ClientRequest(op, perCall, skipAuth, token)
    /\ UNCHANGED <<tmVars, svc>>

DoClientSubscribe ==
    /\ ClientStep
    /\ conn' = ClientSubscribe
    /\ UNCHANGED <<tmVars, svc>>

DoClientUnsubscribe ==
    /\ ClientStep
    /\ conn.subs > 0
    /\ conn' = ClientUnsubscribe
    /\ UNCHANGED <<tmVars, svc>>

DoWsConnected ==
    /\ conn.socket = "connecting"
    /\ conn' = WsConnected
    /\ UNCHANGED <<tmVars, svc>>

DoWsClosed ==
    /\ conn.socket = "connected"
    /\ conn' = WsClosed
    /\ UNCHANGED <<tmVars, svc>>

DoWsFailed ==
    /\ conn.socket = "connecting"
    /\ conn' = WsFailed
    /\ UNCHANGED <<tmVars, svc>>

DoWsNext ==
    /\ conn.socket = "connected"
    /\ conn.subs > 0
    /\ conn' = WsNext
    /\ UNCHANGED <<tmVars, svc>>

InitClient == InitTM /\ isClient /\ refreshEndpoint /\ svc = NoSvc /\ ClientInit

NextClient ==
    \/ DoClientRequest
    \/ DoClientSubscribe
    \/ DoClientUnsubscribe
    \/ DoWsConnected
    \/ DoWsClosed
    \/ DoWsFailed
    \/ DoWsNext

SpecClient == InitClient /\ [][NextClient]_vars

-----------------------------------------------------------------------------
(* Part III: useQuery and useSubscription of src/src/module.ts *)

\* What a query of the client comes back with.
QueryValues == {"rows1", "rows2"}
QueryErrors == {"NetworkError", "GraphQLError"}

\* The executions one handle makes: the first and its refetches.
Executions == 1..MaxSteps

\* useQuery(query): the refs are created and execute() runs at once, up to
\* its await: loading is true and request 1 is in flight.  data and error
\* are "null" or the value or error of a request.
UseQueryInit ==
    conn = [program |-> "useQuery",
            data |-> "null",
            error |-> "null",
            steps |-> 1,
            requests |-> [i \in Executions |->
                             IF i = 1 THEN "pending" ELSE "idle"],
            loading |-> TRUE]

\* refetch(): execute() up to its await.
execute ==
    [conn EXCEPT !.error = "null",
                 !.steps = @ + 1,
                 !.requests[conn.steps + 1] = "pending",
                 !.loading = TRUE]

\* execute() after its await, when request i resolved with value v: the try
\* block and the finally block.
executeResolved(i, v) ==
    [conn EXCEPT !.data = v,
                 !.requests[i] = "resolved",
                 !.loading = FALSE]

\* execute() after its await, when request i was rejected with e: the catch
\* block and the finally block.
executeRejected(i, e) ==
    [conn EXCEPT !.error = e,
                 !.requests[i] = "rejected",
                 !.loading = FALSE]

DoRefetch ==
    /\ conn.steps < MaxSteps
    /\ conn' = execute
    /\ UNCHANGED <<tmVars, svc>>

DoQueryResolved ==
    /\ \E i \in Executions, v \in QueryValues :
          /\ conn.requests[i] = "pending"
          /\ conn' = executeResolved(i, v)
    /\ UNCHANGED <<tmVars, svc>>

DoQueryRejected ==
    /\ \E i \in Executions, e \in QueryErrors :
          /\ conn.requests[i] = "pending"
          /\ conn' = executeRejected(i, e)
    /\ UNCHANGED <<tmVars, svc>>

InitQuery ==
    InitTM /\ isClient /\ refreshEndpoint /\ svc = NoSvc /\ UseQueryInit

NextQuery ==
    \/ DoRefetch
    \/ DoQueryResolved
    \/ DoQueryRejected

SpecQuery == InitQuery /\ [][NextQuery]_vars

\* The subscriptions one handle can register: one per start().
Registrations == 1..(MaxSteps + 1)

\* unsubscribeFn: null, the no-op GraphQLClient.subscribe() returns without
\* a wsClient, or the cancellation handle of registration i.
NullFn == <<"null">>
NoopFn == <<"noop">>
CancelFn(i) == <<"cancel", i>>

\* start(): nothing when isActive; otherwise isActive is set and
\* clientInstance.subscribe() is called, which registers a subscription when
\* the client has a wsClient and only logs when it has none.
start ==
    IF conn.isActive THEN [conn EXCEPT !.steps = @ + 1]
    ELSE IF conn.wsClient
    THEN [conn EXCEPT !.steps = @ + 1,
                      !.isActive = TRUE,
                      !.registered = @ + 1,
                      !.regs[conn.registered + 1] = "live",
                      !.unsubscribeFn = CancelFn(conn.registered + 1)]
    ELSE [conn EXCEPT !.steps = @ + 1,
                      !.isActive = TRUE,
                      !.unsubscribeFn = NoopFn]

\* stop(): the cancellation handle, if there is one, is invoked and dropped.
\* Invoking the handle of a live registration ends it.
stop ==
    IF conn.unsubscribeFn = NullFn
    THEN [conn EXCEPT !.steps = @ + 1, !.isActive = FALSE]
    ELSE IF conn.unsubscribeFn = NoopFn
    THEN [conn EXCEPT !.steps = @ + 1,
                      !.isActive = FALSE,
                      !.unsubscribeFn = NullFn]
    ELSE [conn EXCEPT !.steps = @ + 1,
                      !.isActive = FALSE,
                      !.regs[conn.unsubscribeFn[2]] =
                          IF @ = "live" THEN "cancelled" ELSE @,
                      !.cancels[conn.unsubscribeFn[2]] = @ + 1,
                      !.unsubscribeFn = NullFn]

\* useSubscription(subscription): the refs are created and start() runs at
\* once.  wsClient: the client has a streaming client.
UseSubscriptionInit ==
    \E ws \in BOOLEAN :
        conn = [program |-> "useSubscription",
                data |-> "null",
                error |-> "null",
                wsClient |-> ws,
                steps |-> 0,
                isActive |-> TRUE,
                registered |-> IF ws THEN 1 ELSE 0,
                regs |-> [i \in Registrations |->
                             IF ws /\ i = 1 THEN "live" ELSE "none"],
                unsubscribeFn |-> IF ws THEN CancelFn(1) ELSE NoopFn,
                cancels |-> [i \in Registrations |-> 0]]

\* The handlers start() gave to subscribe(), for registration i.
nextHandler(i, v) == [conn EXCEPT !.data = v]
errorHandler(i, e) ==
    [conn EXCEPT !.error = e, !.isActive = FALSE, !.regs[i] = "ended"]
completeHandler(i) == [conn EXCEPT !.isActive = FALSE, !.regs[i] = "ended"]

DoStart ==
    /\ conn.steps < MaxSteps
    /\ conn' = start
    /\ UNCHANGED <<tmVars, svc>>

DoStop ==
    /\ conn.steps < MaxSteps
    /\ conn' = stop
    /\ UNCHANGED <<tmVars, svc>>

DoSubNext ==
    /\ \E i \in Registrations, v \in QueryValues :
          /\ conn.regs[i] = "live"
          /\ conn' = nextHandler(i, v)
    /\ UNCHANGED <<tmVars, svc>>

DoSubError ==
    /\ \E i \in Registrations, e \in QueryErrors :
          /\ conn.regs[i] = "live"
          /\ conn' = errorHandler(i, e)
    /\ UNCHANGED <<tmVars, svc>>

DoSubComplete ==
    /\ \E i \in Registrations :
          /\ conn.regs[i] = "live"
          /\ conn' = completeHandler(i)
    /\ UNCHANGED <<tmVars, svc>>

InitSub ==
    InitTM /\ isClient /\ refreshEndpoint /\ svc = NoSvc
       /\ UseSubscriptionInit

NextSub ==
    \/ DoStart
    \/ DoStop
    \/ DoSubNext
    \/ DoSubError
    \/ DoSubComplete

SpecSub == InitSub /\ [][NextSub]_vars

-----------------------------------------------------------------------------
(* Part I: properties of the TokenManager *)

\* The refresh calls that have not been answered yet.
Outstanding == {p \in PromiseIds : promise[p].st = "pending"}

\* Call c is made in this step.
Called(c) == calls[c].st = "idle" /\ calls'[c].st # "idle"

\* Promise p settles in this step.
Fails(p) == promise[p].st = "pending" /\ promise'[p].st = "rejected"
Succeeds(p) == promise[p].st = "pending" /\ promise'[p].st = "fulfilled"

\* The validity rule as the specification words it: the token decodes, and
\* its expiry is absent or later than now + the look-ahead window.
SpecValid(t, at) ==
    Decodable(t) /\ (Exp(t) = NoExp \/ Exp(t) > at + bufferTime)

\* The state of the token slot, read off the fields of the TokenManager.
\* (Failed is Absent after a rejected refresh; the code keeps no trace of it.)
TMState ==
    IF GuardHeld THEN "Refreshing"
    ELSE IF getToken = "null" THEN "Absent"
    ELSE IF isTokenValid(getToken, now) THEN "CachedValid"
    ELSE "CachedExpiring"

\* C1: single flight.  At most one refresh call is outstanding; every refresh
\* was started by exactly one call, the others that needed it joined it
\* without a call of their own (the number of fetches is the number of
\* starters); and all calls on one refresh end alike, with the same value.
C1_SingleFlight ==
    /\ Cardinality(Outstanding) <= 1
    /\ refreshCalls = Cardinality({c \in CallIds : calls[c].how = "started"})
    /\ \A p \in PromiseIds :
          promise[p].st # "unused" =>
             Cardinality({c \in CallIds :
                             calls[c].p = p /\ calls[c].how = "started"}) = 1
    /\ \A c, d \in CallIds :
          (calls[c].p # 0 /\ calls[c].p = calls[d].p) =>
             (calls[c].st = calls[d].st /\ calls[c].val = calls[d].val)

\* C1 witness: a starter and a joiner of one refresh, both resolved with the
\* token that refresh returned.
C1_Witness ==
    \E c, d \in CallIds :
        /\ calls[c].how = "started" /\ calls[d].how = "joined"
        /\ calls[c].p = calls[d].p
        /\ calls[c].st = "resolved" /\ calls[d].st = "resolved"
        /\ calls[c].val \in Tokens /\ calls[d].val = calls[c].val
        /\ refreshCalls = 1

\* C2: when a refresh fails, every call awaiting it is rejected with the
\* error of the refresh, neither store is written and the guard is released;
\* and a call that needs a refresh while none is outstanding starts a new one
\* (one more fetch) rather than joining a finished one.
C2_FailedRefresh ==
    [][ /\ \A p \in PromiseIds :
              Fails(p) =>
                 /\ cookie' = cookie /\ localStorage' = localStorage
                 /\ promise'[p].val \in RefreshErrors
                 /\ \A c \in CallIds :
                       calls[c].p = p =>
                          /\ calls'[c].st = "rejected"
                          /\ calls'[c].val = promise'[p].val
                 /\ ~GuardHeld'
        /\ \A c \in CallIds :
              (Called(c) /\ Outstanding = {}
                 /\ calls'[c].how \in {"started", "joined"}) =>
                 /\ calls'[c].how = "started"
                 /\ calls'[c].st = "pending"
                 /\ refreshCalls' = refreshCalls + 1
      ]_vars

\* C2 witness: a refresh failed, its caller was rejected with the error, the
\* stores are empty, and the next call started a second refresh.
C2_Witness ==
    \E c, d \in CallIds :
        /\ c < d
        /\ calls[c].st = "rejected" /\ calls[c].val \in RefreshErrors
        /\ calls[d].how = "started" /\ calls[d].p # calls[c].p
        /\ cookie = "null" /\ localStorage = "null"
        /\ refreshCalls = 2

\* C3 as claimed: a successful refresh stores the new token in both stores,
\* and a later call, with no clearToken() in between and the token outside
\* the look-ahead window, returns that token without a refresh call.
C3_Original ==
    [][ /\ \A p \in PromiseIds :
              Succeeds(p) =>
                 /\ cookie' = promise'[p].val
                 /\ localStorage' = promise'[p].val
        /\ \A c \in CallIds :
              (Called(c) /\ fresh # "null" /\ SpecValid(fresh, now)) =>
                 /\ calls'[c].st = "resolved"
                 /\ calls'[c].val = fresh
                 /\ refreshCalls' = refreshCalls
      ]_vars

\* C3 amended: the same, in the browser build (import.meta.client).
C3_StoredAndReused ==
    [][ isClient =>
         /\ \A p \in PromiseIds :
               Succeeds(p) =>
                  /\ cookie' = promise'[p].val
                  /\ localStorage' = promise'[p].val
         /\ \A c \in CallIds :
               (Called(c) /\ fresh # "null" /\ SpecValid(fresh, now)) =>
                  /\ calls'[c].st = "resolved"
                  /\ calls'[c].val = fresh
                  /\ refreshCalls' = refreshCalls
      ]_vars

\* C3 witness: in the browser, a call got its token from a refresh and a
\* later call was answered with that token from the stores.
C3_Witness ==
    /\ isClient
    /\ fresh # "null"
    /\ localStorage = fresh
    /\ \E c, d \in CallIds :
          /\ c < d
          /\ calls[c].how = "started" /\ calls[c].st = "resolved"
          /\ calls[c].val = fresh
          /\ calls[d].how = "cached" /\ calls[d].val = fresh
    /\ refreshCalls = 1

\* C4 as claimed: a call that finds a stored token returns it without a
\* refresh call iff the token is valid by the specification's rule; a token
\* that is not is never returned as-is and, with a refresh endpoint, leads to
\* a refresh.
C4_Claim ==
    [][ \A c \in CallIds :
           (Called(c) /\ getToken # "null") =>
              /\ (calls'[c].how = "cached") <=> SpecValid(getToken, now)
              /\ calls'[c].how = "cached" =>
                    (calls'[c].val = getToken /\ refreshCalls' = refreshCalls)
              /\ (~SpecValid(getToken, now) /\ refreshEndpoint) =>
                    calls'[c].how \in {"started", "joined"}
      ]_vars

\* C5: without a refresh endpoint no call is ever rejected or left pending,
\* no refresh call is ever made, a call that finds no stored token returns
\* null, and right after clearToken() no token is found.
C5_PublicMode ==
    [][ ~refreshEndpoint =>
         /\ refreshCalls' = 0
         /\ \A c \in CallIds :
               Called(c) =>
                  /\ calls'[c].st = "resolved"
                  /\ getToken = "null" => calls'[c].val = "null"
         /\ clearToken => getToken' = "null"
      ]_vars

\* C5 witness: no endpoint, a token was stored, then cleared, and the call
\* after that returned null.
C5_Witness ==
    /\ ~refreshEndpoint
    /\ isClient
    /\ getToken = "null"
    /\ \E c, d \in CallIds :
          /\ c < d
          /\ calls[c].how = "cached" /\ calls[c].val \in Tokens
          /\ calls[d].how = "public" /\ calls[d].val = "null"

\* C6 as claimed: clearToken() empties both stores, leaves the slot Absent
\* whatever state it was in, and starts no refresh.
C6_Claim ==
    [][ clearToken =>
         /\ cookie' = "null" /\ localStorage' = "null"
         /\ TMState' = "Absent"
         /\ refreshCalls' = refreshCalls
      ]_vars


-----------------------------------------------------------------------------
(* Part II: properties of the services *)

\* A call of `op` has come back.
Done(op) == svc # NoSvc /\ svc.op = op

\* A where filter that is empty ({}) or absent (null, undefined).
NoFilter(where) == where \in {Undef, Null, Obj(<<>>)}

\* The text of such a filter in a document.
NoFilterText == {"null", "{}"}

Rejected == svc.kind = "ValidationError" /\ svc.calls = 0

\* C7: update() and delete() called with an empty or absent where filter fail
\* with a ValidationError and make no network call, whatever the table, the
\* data and the returning argument, in both services.
C7_WhereRequired ==
    (Done("update") \/ Done("delete")) /\ NoFilter(svc.input.where)
        => Rejected

\* update() of a row with where = {} has been rejected (legacy service), so
\* the where check and not the data check is what rejected it.
C7_Witness ==
    /\ Done("update")
    /\ svc.variant = "legacy"
    /\ svc.input.data = Row1
    /\ svc.input.where = Obj(<<>>)
    /\ Rejected

\* C8: insert() called with null data or with an empty list fails with a
\* ValidationError and makes no network call.
C8_Claim ==
    Done("insert") /\ svc.input.data \in {Null, Arr(<<>>)} => Rejected

UnknownTag(operations) ==
    \E i \in 1..Len(operations) :
        operations[i].type \notin {"insert", "update", "delete"}

\* C9: batch() called with no operation, or with an operation whose type is
\* not insert, update or delete, fails with a ValidationError and makes no
\* network call.
C9_Claim ==
    Done("batch")
      /\ (Len(svc.input.operations) = 0 \/ UnknownTag(svc.input.operations))
        => Rejected

\* C10: no document sent by update, delete, updateMany or batch has an
\* update_* or delete_* field whose where filter is empty or absent.
C10_Claim ==
    svc # NoSvc /\ svc.calls = 1
        => \A i \in 1..Len(svc.fields) :
              svc.fields[i].root \in {"update", "update_many", "delete"}
                 => \A j \in 1..Len(svc.fields[i].wheres) :
                       svc.fields[i].wheres[j] \notin NoFilterText

\* An operation the layer is meant to accept: a known type and, for update
\* and delete, a where filter that is not empty or absent.
ValidOp(op) ==
    /\ op.type \in {"insert", "update", "delete"}
    /\ op.type \in {"update", "delete"} => ~NoFilter(op.where)

AllValid(operations) ==
    \A i \in 1..Len(operations) : ValidOp(operations[i])

\* The text a where filter has in a document of the given service.
WhereText(variant, where) ==
    IF variant = "service" THEN objectToGraphQLParams(where)
    ELSE unquotedJson(where)

\* C11: batch() with n >= 1 valid operations makes exactly one network call
\* with one document of exactly n aliased top-level fields, the i-th being
\* the insert_/update_/delete_ field of the i-th operation: its type, its
\* table and, for update and delete, its where filter.
C11_OneDocument ==
    Done("batch") /\ Len(svc.input.operations) >= 1
      /\ AllValid(svc.input.operations)
        => /\ svc.calls = 1
           /\ Len(svc.fields) = Len(svc.input.operations)
           /\ \A i \in 1..Len(svc.fields) :
                 LET f == svc.fields[i]
                     op == svc.input.operations[i]
                 IN /\ f.alias # ""
                    /\ f.root = op.type
                    /\ f.table = op.table
                    /\ f.wheres =
                          IF op.type = "insert" THEN <<>>
                          ELSE <<WhereText(svc.variant, op.where)>>

\* C11 witness: a batch of an insert and a delete went out as one document of
\* two fields, in that order.
C11_Witness ==
    /\ Done("batch")
    /\ svc.calls = 1
    /\ Len(svc.input.operations) = 2
    /\ svc.input.operations[1].type = "insert"
    /\ svc.input.operations[2].type = "delete"
    /\ Len(svc.fields) = 2
    /\ svc.fields[1].root = "insert" /\ svc.fields[2].root = "delete"

\* C12: in a batch that is sent, an operation with an explicit alias has that
\* alias as the name of its top-level field.
C12_Claim ==
    Done("batch") /\ svc.calls = 1
      /\ Len(svc.fields) = Len(svc.input.operations)
        => \A i \in 1..Len(svc.fields) :
              ~Falsy(svc.input.operations[i].alias)
                 => svc.fields[i].alias = svc.input.operations[i].alias.v

-----------------------------------------------------------------------------
(* Part III: properties of the connector and the client *)

\* A call of `op` is made in this step.
Calls(op) == conn'.steps = conn.steps + 1 /\ conn'.last.op = op

\* C13: without a streaming endpoint, subscribe() delivers an error to its
\* caller, registers no subscription and opens no connection.
C13_Claim ==
    [][ (Calls("subscribe") /\ ~conn.wsClient) =>
           /\ conn'.last.error # "-"
           /\ conn'.subs = conn.subs
           /\ conn'.socket = conn.socket
      ]_vars

\* Names that are equal ignoring case share their lowercase form.
LowerNames == {"x-role", "authorization"}
Folded(name) ==
    IF name \in {"X-Role", "x-role"} THEN "x-role" ELSE "authorization"

\* The value a layer of headers gives a lowercase name: that of its last
\* entry whose name equals it ignoring case, "-" if it has none.
RECURSIVE LayerValue(_, _)
LayerValue(layer, name) ==
    IF layer = NoHeaders \/ Len(layer) = 0 THEN "-"
    ELSE IF Folded(layer[Len(layer)][1]) = name THEN layer[Len(layer)][2]
    ELSE LayerValue(SubSeq(layer, 1, Len(layer) - 1), name)

\* The merge default < instance (the token's authorization) < per call.
MergedValue(defaults, token, perCall, name) ==
    IF LayerValue(perCall, name) # "-" THEN LayerValue(perCall, name)
    ELSE IF name = "authorization" /\ token # "null" THEN "Bearer " \o token
    ELSE LayerValue(defaults, name)

\* C14: the headers a query/mutate request of the client goes out with are
\* the merge of the default headers, the token's authorization header and
\* the per-call headers, later over earlier ignoring case, and every name
\* sent is lowercase.
C14_HeaderMerge ==
    [][ ((Calls("query") \/ Calls("mutate"))
            /\ conn.program = "GraphQLClient"
            /\ conn'.last.sent # NoHeaders) =>
           LET sent == conn'.last.sent
           IN /\ \A i \in 1..Len(sent) : sent[i][1] \in LowerNames
              /\ \A name \in LowerNames :
                    HGet(sent, name) =
                       MergedValue(conn.defaultHeaders, conn'.auth,
                                   conn'.last.perCall, name)
      ]_vars

\* C14 witness: the default X-Role and Authorization were overridden by the
\* per-call x-role and by the token; what went out is lowercase.
C14_Witness ==
    /\ conn.program = "GraphQLClient"
    /\ conn.last.op = "query"
    /\ conn.defaultHeaders = << <<"Authorization", "Bearer cfg">> >>
    /\ conn.auth = "tok"
    /\ conn.last.perCall = << <<"X-Role", "admin">>, <<"x-role", "user">> >>
    /\ conn.last.sent = << <<"authorization", "Bearer tok">>,
                            <<"x-role", "user">> >>

\* Two header objects with the same entries, in whatever order.
SameHeaders(a, b) == \A name \in HeaderNames : HGet(a, name) = HGet(b, name)

RequestOps == {"query", "mutate", "get", "insert", "batch"}

\* C15: a request of the connector made without per-call headers goes out
\* with exactly the connector's instance headers, whatever per-call headers
\* earlier calls were given.
C15_Claim ==
    [][ (conn.program = "HasuraConnector"
            /\ (\E op \in RequestOps : Calls(op))
            /\ conn'.last.perCall = NoHeaders) =>
           SameHeaders(conn'.last.sent, conn.headers)
      ]_vars

\* C16: after setHeaders(h) the requests of the connector and the connection
\* parameters of its subscriptions carry h; after setHeader(k, v) they
\* carry what they carried before with k set to v; and a request or a
\* subscription made afterwards goes out with what they carry.
C16_Claim ==
    [][ conn.program = "HasuraConnector" =>
         /\ Calls("setHeaders") =>
               /\ SameHeaders(conn'.svcHeaders, conn'.last.perCall)
               /\ conn.wsClient =>
                     SameHeaders(conn'.wsParams, conn'.last.perCall)
         /\ Calls("setHeader") =>
               LET key == conn'.last.perCall[1][1]
                   value == conn'.last.perCall[1][2]
               IN /\ SameHeaders(conn'.svcHeaders,
                                  HSet(conn.svcHeaders, key, value))
                  /\ conn.wsClient =>
                        SameHeaders(conn'.wsParams,
                                    HSet(conn.wsParams, key, value))
         /\ ((\E op \in RequestOps : Calls(op))
                /\ conn'.last.perCall = NoHeaders) =>
               conn'.last.sent = conn.svcHeaders
         /\ (Calls("subscribe") /\ conn.wsClient) =>
               conn'.last.sent = conn.wsParams
      ]_vars

\* A request was made and it failed with response.errors.
FailedWithErrors ==
    /\ svc # NoSvc
    /\ svc.calls = 1
    /\ ~svc.resp.ok
    /\ svc.resp.gql

PermissionCodes == {"permission-denied", "invalid-jwt"}

\* C17: a failed request whose response carries errors is reported as
\* PermissionDeniedError when the first error's code is permission-denied
\* or invalid-jwt, and otherwise as GraphQLError with the first error's
\* message and the first error itself as its details.
C17_Claim ==
    FailedWithErrors =>
        IF svc.resp.code \in PermissionCodes
        THEN svc.kind = "PermissionDeniedError"
        ELSE /\ svc.kind = "GraphQLError"
             /\ svc.msg = svc.resp.message
             /\ svc.details = svc.resp

\* The kinds of error of the service: the classes of part_005 lines 8-58.
ErrorKinds ==
    {"GraphQLServiceError", "NetworkError", "PermissionDeniedError",
     "GraphQLError", "ValidationError"}

\* The operation failed: it threw before the request, or the request did.
Failed == svc # NoSvc /\ (svc.calls = 0 \/ ~svc.resp.ok)

\* C18: every failure reaches the caller as an error of exactly one kind
\* of the service: one raised before the request is the error raised, a
\* connectivity failure is a NetworkError, a failure that is none of the
\* classified ones is a GraphQLServiceError with the original message;
\* no failure becomes a result.
C18_Claim ==
    Failed =>
        /\ svc.kind \in ErrorKinds
        /\ svc.calls = 1 =>
             /\ svc.resp.cause = "connectivity" => svc.kind = "NetworkError"
             /\ svc.resp.cause = "other" =>
                  /\ svc.kind = "GraphQLServiceError"
                  /\ svc.msg = svc.resp.message

\* The other setting of the debug flag.
Flipped(option) == IF debugOf(option) THEN "off" ELSE "on"

\* The same call against the same endpoint with the debug flag flipped.
OtherRun ==
    Perform(svc.variant, svc.op, svc.input, svc.resp, Flipped(svc.option))

\* C19: a call and the same call with the debug flag flipped make the same
\* network calls with the same document and give the caller the same result
\* or the same error (kind, message and details); and with the option not
\* configured nothing is logged.
C19_DebugNonInterference ==
    svc # NoSvc =>
        /\ LET other == OtherRun
           IN /\ other.calls = svc.calls
              /\ other.fields = svc.fields
              /\ other.kind = svc.kind
              /\ other.msg = svc.msg
              /\ other.details = svc.details
        /\ svc.option = "unset" => svc.logged = 0 /\ ~debugOf(svc.option)

\* A request that failed with debug on: the failure was logged and the
\* caller got the error.
C19_Witness ==
    /\ svc # NoSvc
    /\ svc.option = "on"
    /\ svc.calls = 1
    /\ svc.logged > 0
    /\ svc.kind = "GraphQLError"
    /\ OtherRun.logged = 0

\* A subscription is ended by its caller in this step.
Cancelled == conn'.steps = conn.steps + 1 /\ conn'.subs = conn.subs - 1

\* C20: after a disconnect the subscription client keeps retrying until the
\* connection is restored or the subscription is cancelled: it never gives
\* up, a subscription ends only when its caller cancels it, and data that
\* arrives after the reconnection goes to the subscriptions made before it.
C20_Claim ==
    [][conn.program = "GraphQLClient" =>
         /\ conn'.socket # "gaveup"
         /\ conn'.subs < conn.subs => Cancelled
         /\ conn'.dropped = 0]_vars

\* The documented delay before attempt n, in ms.
Min(a, b) == IF a < b THEN a ELSE b
Backoff(n) == Min(1000 * 2^n, 16000)

\* A failed connection attempt is followed by another one in this step.
Retried ==
    /\ conn.program = "GraphQLClient"
    /\ conn'.program = "GraphQLClient"
    /\ conn'.retries = conn.retries + 1

\* C21: the wait before reconnection attempt n is min(1000 * 2^n, 16000) ms;
\* it doubles from one attempt to the next and grows strictly until it is
\* the cap, and it is never more than the cap.
C21_Backoff ==
    [][/\ Retried =>
            /\ conn'.wait = Backoff(conn.retries)
            /\ conn'.wait <= 16000
            /\ conn.retries > 0 =>
                 /\ conn'.wait = 2 * conn.wait \/ conn'.wait = 16000
                 /\ conn.wait < 16000 => conn'.wait > conn.wait
       /\ \A n \in 0..(2 * retryAttempts) :
            /\ retryWait(n) = Backoff(n)
            /\ retryWait(n) <= 16000
            /\ retryWait(n + 1) = 2 * retryWait(n) \/ retryWait(n + 1) = 16000
            /\ retryWait(n) < 16000 => retryWait(n + 1) > retryWait(n)]_vars

\* The fifth attempt in a row has failed and the wait has reached the cap.
C21_Witness ==
    /\ conn.program = "GraphQLClient"
    /\ conn.retries = retryAttempts
    /\ conn.wait = 16000
    /\ conn.subs > 0

\* An option of the get() that was called, undefined when it was left out.
Given(name) == Prop(svc.input.options, name)

\* The text of the order_by value, in the notation of each service.
OrderByText(variant, orderBy) ==
    IF variant = "service" THEN orderByStr(orderBy) ELSE orderByJson(orderBy)

\* The argument clauses get() was asked for, in the order where, limit,
\* offset, order_by.
Clauses ==
    (IF Given("where").t # "undefined"
     THEN <<"where: " \o WhereText(svc.variant, Given("where"))>> ELSE <<>>)
    \o (IF Given("limit").t # "undefined"
        THEN <<"limit: " \o ToString(Given("limit").v)>> ELSE <<>>)
    \o (IF Given("offset").t # "undefined"
        THEN <<"offset: " \o ToString(Given("offset").v)>> ELSE <<>>)
    \o (IF Given("orderBy").t # "undefined"
        THEN <<"order_by: " \o OrderByText(svc.variant, Given("orderBy"))>>
        ELSE <<>>)

\* C22: whichever of where, limit, offset and orderBy are given, the document
\* of get() has all of them, separated by commas, inside one parenthesis
\* group that opens right after the table name and closes after the last
\* clause, and has no parenthesis when none is given.
C22_Claim ==
    Done("get") /\ svc.calls = 1 =>
        /\ svc.fields[1].table = svc.input.table
        /\ svc.fields[1].pieces =
              IF Len(Clauses) = 0 THEN <<>>
              ELSE <<"(">> \o Joined(Clauses) \o <<")">>

\* The options of the get() that was called without the option `name`.
RECURSIVE Except(_, _)
Except(entries, name) ==
    IF Len(entries) = 0 THEN <<>>
    ELSE IF entries[1][1] = name THEN Except(Tail(entries), name)
    ELSE <<entries[1]>> \o Except(Tail(entries), name)

Without(name) == GetInput(svc.input.table, Obj(Except(svc.input.options.e, name)))

\* C23: when get() is given an aggregate, its document has the field of the
\* table exactly as without the aggregate, with the requested selection, and
\* besides it a {table}_aggregate field holding the aggregate.
C23_Claim ==
    Done("get") /\ svc.calls = 1 /\ Given("aggregate").t # "undefined" =>
        /\ svc.fields[1] =
              Run(svc.variant, "get", Without("aggregate")).fields[1]
        /\ \E i \in 2..Len(svc.fields) :
              /\ svc.fields[i].table = svc.input.table \o "_aggregate"
              /\ svc.fields[i].sel = Given("aggregate").v

\* The white space each service writes after a colon and a comma.
Blank(variant) == IF variant = "service" THEN " " ELSE ""

\* The argument text of a value as documented: keys bare, strings quoted,
\* numbers and booleans bare, null and undefined as null, arrays in
\* brackets, every entry and every item kept in its place.
RECURSIVE Rendered(_, _)
Rendered(variant, v) ==
    IF v.t \in {"undefined", "null"} THEN "null"
    ELSE IF v.t = "string" THEN "\"" \o v.v \o "\""
    ELSE IF v.t = "number" THEN ToString(v.v)
    ELSE IF v.t = "boolean" THEN (IF v.v THEN "true" ELSE "false")
    ELSE IF v.t = "array"
    THEN "[" \o Join([i \in 1..Len(v.e) |-> Rendered(variant, v.e[i])],
                    "," \o Blank(variant)) \o "]"
    ELSE "{" \o Join([i \in 1..Len(v.e) |->
                         v.e[i][1] \o ":" \o Blank(variant)
                            \o Rendered(variant, v.e[i][2])],
                     "," \o Blank(variant)) \o "}"

\* The filter given to the get(), update() or delete() that was called.
AskedWhere == IF svc.op = "get" THEN Given("where") ELSE svc.input.where

\* C24: the filter of a get(), update() or delete() that is sent appears in
\* the document as the text that reproduces its nesting: keys bare, strings
\* quoted and unchanged, numbers and booleans bare, null and undefined as
\* null, arrays as bracketed lists.
C24_Claim ==
    /\ svc # NoSvc
    /\ svc.op \in {"get", "update", "delete"}
    /\ svc.calls = 1
    /\ AskedWhere.t = "object"
    => svc.fields[1].wheres = <<Rendered(svc.variant, AskedWhere)>>

\* An item of updateMany() of the documented shape {data, where}, with data
\* to set and a filter.
ItemOk(item) ==
    /\ item.t = "object"
    /\ Len(item.e) = 2
    /\ Prop(item, "data").t = "object" /\ KeyCount(Prop(item, "data")) > 0
    /\ ~NoFilter(Prop(item, "where"))

\* The text of a _set payload in a document of the given service.
DataText(variant, data) ==
    IF variant = "service" THEN objectToGraphQLParams(data)
    ELSE unquotedJson(data)

\* The where filters of a document, in the order they are written.
RECURSIVE AllWheres(_)
AllWheres(fields) ==
    IF Len(fields) = 0 THEN <<>>
    ELSE fields[1].wheres \o AllWheres(Tail(fields))

\* The argument texts of a document, joined.
AllArgs(fields) == Join([i \in 1..Len(fields) |-> fields[i].args], " | ")

\* The argument text of the updates of the items, as each service writes
\* updates: one update_{table} field per item, or one update_{table}_many
\* field with one entry per item.
UpdatesText(variant, items) ==
    IF variant = "service"
    THEN Join([i \in 1..Len(items) |->
                  "_set: " \o DataText(variant, Prop(items[i], "data"))
                     \o ", where: "
                     \o WhereText(variant, Prop(items[i], "where"))], " | ")
    ELSE "updates: ["
            \o Join([i \in 1..Len(items) |->
                  "{where: " \o WhereText(variant, Prop(items[i], "where"))
                     \o ", _set: "
                     \o DataText(variant, Prop(items[i], "data")) \o "}"],
                    ", ")
            \o "]"

\* C25: updateMany() with n >= 1 items {data, where} makes exactly one
\* network call with one document that holds, for every item in order, one
\* update whose _set is the item's data and whose filter is the item's
\* where.
C25_Claim ==
    /\ Done("updateMany")
    /\ IsArray(svc.input.data)
    /\ Len(svc.input.data.e) >= 1
    /\ \A i \in 1..Len(svc.input.data.e) : ItemOk(svc.input.data.e[i])
    => /\ svc.calls = 1
       /\ \A i \in 1..Len(svc.fields) :
             svc.fields[i].root \in {"update", "update_many"}
       /\ AllWheres(svc.fields) =
             [i \in 1..Len(svc.input.data.e) |->
                 WhereText(svc.variant, Prop(svc.input.data.e[i], "where"))]
       /\ AllArgs(svc.fields) = UpdatesText(svc.variant, svc.input.data.e)

\* C26: a query or mutation with skipAuth: true does not call
\* getValidToken(), so no refresh can start, and its headers are the merge
\* of the default and the per-call headers alone: no authorization header
\* comes from the stored token.
C26_SkipAuth ==
    [][ ((Calls("query") \/ Calls("mutate"))
            /\ conn.program = "GraphQLClient"
            /\ conn'.skipAuth) =>
           /\ conn'.asked = conn.asked
           /\ refreshCalls' = refreshCalls
           /\ conn'.last.error = "-"
           /\ \A name \in LowerNames :
                 HGet(conn'.last.sent, name) =
                    MergedValue(conn.defaultHeaders, "null",
                                conn'.last.perCall, name)
      ]_vars

\* C26 witness: after a request that was given the stored token, a request
\* with skipAuth went out without an authorization header.
C26_Witness ==
    /\ conn.program = "GraphQLClient"
    /\ conn.last.op = "query"
    /\ conn.skipAuth
    /\ conn.asked > 0
    /\ conn.last.sent # NoHeaders
    /\ HGet(conn.last.sent, "authorization") = "-"

\* C27: the headers mapping of the options a connector was constructed with
\* stays as the caller gave it, whatever setHeader, setHeaders and per-call
\* headers do to the connector.
C27_Claim ==
    conn.program = "HasuraConnector" => conn.config = conn.config0

\* C28: when clearToken() was called while a refresh was outstanding, the
\* completion of that refresh stores no token: both stores are left as they
\* are.
C28_Claim ==
    [][ \A p \in PromiseIds :
           (Succeeds(p) /\ promise[p].cleared) =>
               /\ cookie' = cookie
               /\ localStorage' = localStorage
      ]_vars

\* The requests of the handle that are in flight.
InFlight == {i \in Executions : conn.requests[i] = "pending"}

\* C29: for a useQuery handle, loading is true whenever a request of the
\* handle is in flight and false when none is, however the first execute and
\* the refetches overlap.
C29_Claim ==
    conn.program = "useQuery" => (conn.loading <=> InFlight # {})

\* The registrations of the handle that are live on the transport.
Live == {i \in Registrations : conn.regs[i] = "live"}

\* C30: for a useSubscription handle, isActive is true exactly while one
\* subscription registered by the handle is live: there is never more than
\* one, no cancellation handle is invoked twice, and isActive is never true
\* when the client has no streaming client.
C30_Claim ==
    conn.program = "useSubscription" =>
        /\ Cardinality(Live) <= 1
        /\ conn.isActive <=> Cardinality(Live) = 1
        /\ \A i \in Registrations : conn.cancels[i] <= 1
        /\ ~conn.wsClient => ~conn.isActive

====
